---- MODULE Spec2Model ----
(***************************************************************************)
(* A model of booklet, a terminal e-book viewer.                           *)
(*                                                                         *)
(*   src/src/lib.rs   Config, Book and State: the viewer's state and its   *)
(*                    operations (navigation, bookmarks, selection).       *)
(*                    Specifications: Spec (navigation and bookmarks),     *)
(*                    SpecConfig (the calls that write the sidecar file),  *)
(*                    SpecView (selection, resize, definition lookup),     *)
(*                    SpecBook (Book::from_path).                          *)
(*   src/src/main.rs  run(): the event loop of the stand-alone viewer with *)
(*                    its own Config/State, key and mouse handlers.        *)
(*                    Specification: SpecMain.                             *)
(*                                                                         *)
(* Option<T> is modelled as a sequence: None is << >>, Some(x) is <<x>>.   *)
(* A span (usize, usize, usize) is a 3-tuple <<pos, start, end>>.          *)
(* A text is a sequence of characters, each character a string.            *)
(***************************************************************************)
EXTENDS Integers, Sequences, FiniteSets, TLC

VARIABLES
    state,      \* lib.rs: the State struct
    last,       \* lib.rs: the latest call on State: its name, argument, the State before it,
                \*         whether Config::write succeeded and what it wrote to the sidecar file
    nextFrom,   \* lib.rs: Some(l) when the call before the latest was goto_next_bookmark at line l
    lookup,     \* lib.rs: the define_selection future in flight, None when there is none: its
                \*         locals, the await it is suspended at, and the State when it was called
    load,       \* lib.rs: Book::from_path: its position and the content after each of its steps
    lines,      \* main.rs: `lines`, the encoded document split into lines
    size,       \* main.rs: <<cols, rows>> as read by read_size
    index,      \* main.rs: `index`, the viewport anchor line
    mstate,     \* main.rs: `state`, the State struct of main.rs
    pc,         \* main.rs: position of run(): "loop", "g" (inner loop of the g key) or "done"
    mlast,      \* main.rs: the latest event handled: the event, the renders it issued, index and state before it
    mprev       \* main.rs: Some(markers) when the event before the latest was an `m` that toggled a marker

vars == <<state, last, nextFrom, lookup, load, lines, size, index, mstate, pc, mlast, mprev>>

libVars == <<state, last, nextFrom, lookup>>
mainVars == <<lines, size, index, mstate, pc, mlast, mprev>>

None == << >>
Some(x) == <<x>>

(***************************************************************************)
(* Bounds of the model.                                                    *)
(***************************************************************************)
\* book.line_count ranges over 0..MaxLineCount
MaxLineCount == 2
\* line numbers named by inputs (sidecar bookmarks, toggle_bookmark arguments) range over 0..MaxBookmark
MaxBookmark == 2
\* the sidecar file lists at most MaxFileBookmarks bookmarks
MaxFileBookmarks == 2

(***************************************************************************)
(* Helpers for Vec<usize>.                                                 *)
(***************************************************************************)
\* saturating_sub on usize
SatSub(a, b) == IF a > b THEN a - b ELSE 0

\* Vec::sort on Vec<usize>
Sort(v) == SortSeq(v, LAMBDA a, b : a < b)

\* Iterator::position: index (1-based) of the first item equal to x, 0 when there is none
Position(v, x) ==
    IF \E i \in 1..Len(v) : v[i] = x
    THEN CHOOSE i \in 1..Len(v) : v[i] = x /\ \A j \in 1..(i - 1) : v[j] # x
    ELSE 0

\* Vec::remove(i) for a 1-based i
RemoveAt(v, i) == [j \in 1..(Len(v) - 1) |-> IF j < i THEN v[j] ELSE v[j + 1]]

\* sequences over S of length at most n
SeqsUpTo(S, n) == UNION {[1..k -> S] : k \in 0..n}

(***************************************************************************)
(* lib.rs: Config                                                          *)
(***************************************************************************)
\* Config::default()
Config_default == [bookmarks |-> << >>, markers |-> << >>, focus_mode |-> None]

\* Config::from_path: a missing sidecar file gives the default; otherwise the
\* parsed record with its bookmarks sorted.
from_path(file) ==
    IF file = None THEN Config_default
    ELSE [file[1] EXCEPT !.bookmarks = Sort(@)]

\* Config::write: what reaches the sidecar file, Some(config) unless the write fails
Config_write(config, ok) == IF ok THEN Some(config) ELSE None

\* the sidecar files the model starts from: none, or a record parsed by toml
SidecarFiles ==
    {None} \cup
    {Some([bookmarks |-> b, markers |-> << >>, focus_mode |-> None]) :
        b \in SeqsUpTo(0..MaxBookmark, MaxFileBookmarks)}

(***************************************************************************)
(* lib.rs: State                                                           *)
(***************************************************************************)
\* State::new
State_new(config, book) ==
    [config |-> config, book |-> book,
     screen_width |-> 0, screen_height |-> 0,
     line_number |-> 0, selection |-> None, pad_left |-> 0,
     update_screen |-> FALSE, definition |-> None, message |-> None]

\* State::update_screen
update_screen(s) == [s EXCEPT !.update_screen = TRUE]

\* State::show_message
show_message(s, m) == update_screen([s EXCEPT !.message = Some(m)])

\* State::move_up
move_up(s) ==
    IF s.line_number > 0
    THEN update_screen([s EXCEPT !.line_number = @ - 1])
    ELSE s

\* move_down with the last line taken for line_count instead of line_count - 1
move_down_past_end(s) ==
    IF s.line_number < s.book.line_count
    THEN update_screen([s EXCEPT !.line_number = @ + 1])
    ELSE s

\* State::move_down
move_down(s) ==
    IF s.line_number < SatSub(s.book.line_count, 1)
    THEN update_screen([s EXCEPT !.line_number = @ + 1])
    ELSE s

\* State::goto_top
goto_top(s) ==
    IF s.line_number > 0
    THEN update_screen([s EXCEPT !.line_number = 0])
    ELSE s

\* State::goto_bottom
goto_bottom(s) ==
    IF s.line_number # SatSub(s.book.line_count, 1)
    THEN update_screen([s EXCEPT !.line_number = SatSub(s.book.line_count, 1)])
    ELSE s

\* the loop of goto_next_bookmark: the first bookmark, in Vec order, greater than line
FirstGreater(v, line) ==
    IF \E i \in 1..Len(v) : v[i] > line
    THEN Some(v[CHOOSE i \in 1..Len(v) : v[i] > line /\ \A j \in 1..(i - 1) : ~(v[j] > line)])
    ELSE None

\* the loop of goto_prev_bookmark without .rev(): the first bookmark, in Vec order, less than line
LastLess_forward(v, line) ==
    IF \E i \in 1..Len(v) : v[i] < line
    THEN Some(v[CHOOSE i \in 1..Len(v) : v[i] < line /\ \A j \in 1..(i - 1) : ~(v[j] < line)])
    ELSE None

\* the loop of goto_prev_bookmark: the first bookmark, in reverse Vec order, less than line
LastLess(v, line) ==
    IF \E i \in 1..Len(v) : v[i] < line
    THEN Some(v[CHOOSE i \in 1..Len(v) : v[i] < line /\ \A j \in (i + 1)..Len(v) : ~(v[j] < line)])
    ELSE None

\* State::goto_next_bookmark
goto_next_bookmark(s) ==
    LET found == FirstGreater(s.config.bookmarks, s.line_number)
    IN  IF found # None
        THEN update_screen([s EXCEPT !.line_number = found[1]])
        ELSE s

\* goto_prev_bookmark comparing with <= instead of <
goto_prev_bookmark_le(s) ==
    LET at == {i \in 1..Len(s.config.bookmarks) : s.config.bookmarks[i] <= s.line_number}
    IN  IF at # {}
        THEN update_screen([s EXCEPT !.line_number = s.config.bookmarks[CHOOSE i \in at : \A j \in at : j <= i]])
        ELSE s

\* State::goto_prev_bookmark
goto_prev_bookmark(s) ==
    LET found == LastLess(s.config.bookmarks, s.line_number)
    IN  IF found # None
        THEN update_screen([s EXCEPT !.line_number = found[1]])
        ELSE s

\* State::set_selection
set_selection(s, sel) ==
    IF ~(s.selection # None
         /\ s.selection[1][1] = sel[1] /\ s.selection[1][2] = sel[2] /\ s.selection[1][3] = sel[3])
    THEN update_screen([s EXCEPT !.selection = Some(sel)])
    ELSE s

\* State::clear_selection
clear_selection(s) ==
    IF s.selection # None
    THEN update_screen([s EXCEPT !.selection = None])
    ELSE s

\* State::has_bookmark
has_bookmark(s, n) == \E i \in 1..Len(s.config.bookmarks) : s.config.bookmarks[i] = n

\* add_bookmark without the sort after the push
add_bookmark_unsorted(s, n, ok) ==
    IF ~(\E i \in 1..Len(s.config.bookmarks) : s.config.bookmarks[i] = n)
    THEN LET t == [s EXCEPT !.config.bookmarks = Append(@, n)]
         IN  IF ok THEN update_screen([t EXCEPT !.message = Some("(i) Added bookmark")]) ELSE t
    ELSE s

\* State::add_bookmark, the State it leaves; ok tells whether Config::write succeeds
\* (on failure the `?` returns before the message and the dirty flag are set)
add_bookmark(s, n, ok) ==
    IF ~(\E i \in 1..Len(s.config.bookmarks) : s.config.bookmarks[i] = n)
    THEN LET t == [s EXCEPT !.config.bookmarks = Sort(Append(@, n))]
         IN  IF ok THEN update_screen(show_message(t, "(i) Added bookmark")) ELSE t
    ELSE s

\* remove_bookmark with the removal undone when Config::write fails
remove_bookmark_rollback(s, n, ok) ==
    LET i == Position(s.config.bookmarks, n)
    IN  IF i # 0 /\ ok
        THEN update_screen([s EXCEPT !.config.bookmarks = RemoveAt(@, i),
                                     !.message = Some("(i) Removed bookmark")])
        ELSE s

\* State::remove_bookmark, the State it leaves
remove_bookmark(s, n, ok) ==
    LET i == Position(s.config.bookmarks, n)
    IN  IF i # 0
        THEN LET t == [s EXCEPT !.config.bookmarks = RemoveAt(@, i)]
             IN  IF ok THEN update_screen(show_message(t, "(i) Removed bookmark")) ELSE t
        ELSE s

\* State::toggle_bookmark, the State it leaves
toggle_bookmark(s, n, ok) ==
    IF has_bookmark(s, n) THEN remove_bookmark(s, n, ok) ELSE add_bookmark(s, n, ok)

\* whether add_bookmark / remove_bookmark reach their call of Config::write
add_writes(s, n) == ~(\E i \in 1..Len(s.config.bookmarks) : s.config.bookmarks[i] = n)
remove_writes(s, n) == Position(s.config.bookmarks, n) # 0

(***************************************************************************)
(* lib.rs: the calls a client makes on State, one action per method.       *)
(***************************************************************************)
\* the books the model opens: Book::from_path leaves line_count = lines.len(), line_width = 80.
\* The second line of a book is the encoded form of "_ab_", the others are plain.
BookLine == <<"a", "b", " ">>
ItalicBookLine == <<"U+E003", "a", "b", "U+E023">>
Books == {[lines |-> [i \in 1..n |-> IF i = 2 THEN ItalicBookLine ELSE BookLine],
           line_count |-> n, line_width |-> 80] :
            n \in 0..MaxLineCount}

\* the spans a client passes to set_selection
Selections == {<<0, 0, 2>>, <<0, 1, 2>>, <<1, 1, 3>>}

\* the State shared instead of borrowed: a call may run while a lookup is in flight
Exclusive_shared == TRUE

\* a method taking `&mut self` can be called only while no define_selection
\* future, which holds `&mut self` until it completes, is in flight
Exclusive == lookup = None

\* Book::from_path is not running
LoadIdle == load = [pc |-> "idle"]

\* the record of one call on State, which has written w to the sidecar file
Called(op, arg, ok, w) ==
    /\ Exclusive
    /\ last' = [op |-> op, arg |-> arg, ok |-> ok, pre |-> state, written |-> w, found |-> None]
    /\ nextFrom' = IF last.op = "goto_next_bookmark" THEN Some(last.pre.line_number) ELSE None
    /\ UNCHANGED <<lookup, load>>
    /\ UNCHANGED mainVars

\* the state of the event loop of main.rs while the library is exercised
MainIdle ==
    /\ lines = << >>
    /\ size = <<0, 0>>
    /\ index = 0
    /\ mstate = [config |-> [bookmarks |-> << >>, markers |-> << >>], index |-> 0,
                 selection |-> None, pad_left |-> 0]
    /\ pc = "idle"
    /\ mlast = [event |-> <<"start">>, ok |-> TRUE, renders |-> << >>,
                pc |-> "idle", index |-> 0, pre |-> mstate]
    /\ mprev = None

\* Config::from_path followed by State::new
InitLib ==
    /\ \E file \in SidecarFiles, book \in Books :
        state = State_new(from_path(file), book)
    /\ last = [op |-> "new", arg |-> None, ok |-> TRUE, pre |-> state, written |-> None, found |-> None]
    /\ nextFrom = None
    /\ lookup = None

MoveUp ==
    /\ state' = move_up(state)
    /\ Called("move_up", None, TRUE, None)

MoveDown ==
    /\ state' = move_down(state)
    /\ Called("move_down", None, TRUE, None)

GotoTop ==
    /\ state' = goto_top(state)
    /\ Called("goto_top", None, TRUE, None)

GotoBottom ==
    /\ state' = goto_bottom(state)
    /\ Called("goto_bottom", None, TRUE, None)

GotoNextBookmark ==
    /\ state' = goto_next_bookmark(state)
    /\ Called("goto_next_bookmark", None, TRUE, None)

GotoPrevBookmark ==
    /\ state' = goto_prev_bookmark(state)
    /\ Called("goto_prev_bookmark", None, TRUE, None)

SetSelection ==
    \E sel \in Selections :
        /\ state' = set_selection(state, sel)
        /\ Called("set_selection", Some(sel), TRUE, None)

ClearSelection ==
    /\ state' = clear_selection(state)
    /\ Called("clear_selection", None, TRUE, None)

ToggleBookmark ==
    \E n \in 0..MaxBookmark, ok \in BOOLEAN :
        /\ state' = toggle_bookmark(state, n, ok)
        /\ Called("toggle_bookmark", Some(n), ok, Config_write(state'.config, ok))

AddBookmark ==
    \E n \in 0..MaxBookmark :
        \E ok \in IF add_writes(state, n) THEN BOOLEAN ELSE {TRUE} :
            /\ state' = add_bookmark(state, n, ok)
            /\ Called("add_bookmark", Some(n), ok,
                      IF add_writes(state, n) THEN Config_write(state'.config, ok) ELSE None)

RemoveBookmark ==
    \E n \in 0..MaxBookmark :
        \E ok \in IF remove_writes(state, n) THEN BOOLEAN ELSE {TRUE} :
            /\ state' = remove_bookmark(state, n, ok)
            /\ Called("remove_bookmark", Some(n), ok,
                      IF remove_writes(state, n) THEN Config_write(state'.config, ok) ELSE None)

\* the client's render step: it repaints when update_screen is set and clears the flag
Render ==
    /\ state.update_screen
    /\ state' = [state EXCEPT !.update_screen = FALSE]
    /\ Called("render", None, TRUE, None)

Init == InitLib /\ MainIdle /\ LoadIdle

Next ==
    \/ MoveUp
    \/ MoveDown
    \/ GotoTop
    \/ GotoBottom
    \/ GotoNextBookmark
    \/ GotoPrevBookmark
    \/ ToggleBookmark
    \/ AddBookmark
    \/ RemoveBookmark
    \/ Render

Spec == Init /\ [][Next]_vars

(***************************************************************************)
(* main.rs: characters and text                                            *)
(***************************************************************************)
\* Codes: the private-use sentinels
ITALIC == "U+E003"
RESET_ITALIC == "U+E023"
RESET_BACKGROUND == "U+E200"
BACKGROUND_MARKER == "U+E201"
BACKGROUND_SELECTION == "U+E202"

\* ROMAN8 is U+2167, ROMAN NUMERAL EIGHT: general category Nl, which is both
\* Alphabetic and numeric. ESC is U+001B.
ROMAN8 == "U+2167"
ESC == "U+001B"

\* the characters of the documents with the Unicode property Alphabetic, and
\* those of the general categories Nd, Nl and No
Alphabetic == {"a", "b", ROMAN8}
Numeric == {"1", "2", ROMAN8}

\* char::is_alphabetic
is_alphabetic(c) == c \in Alphabetic

\* char::is_numeric
is_numeric(c) == c \in Numeric

\* char::is_whitespace
is_whitespace(c) == c \in {" ", "\n", "\r", "\t"}

\* run(): the scan that replaces `_` by italic sentinels, from character i on,
\* with the flags `open` and `find_start`
RECURSIVE ItalicScan(_, _, _, _)
ItalicScan(content, i, open, find_start) ==
    IF i > Len(content) THEN << >>
    ELSE LET ch == content[i]
         IN  IF ch = "_"
             THEN <<IF ~open THEN ITALIC ELSE RESET_ITALIC>>
                      \o ItalicScan(content, i + 1, ~open, FALSE)
             ELSE LET break == ch = "\n" /\ open
                      fs == find_start \/ break
                      resume == ~is_whitespace(ch) /\ fs
                  IN  (IF break THEN <<RESET_ITALIC>> ELSE << >>)
                          \o (IF resume THEN <<ITALIC>> ELSE << >>)
                          \o <<ch>>
                          \o ItalicScan(content, i + 1, open, IF resume THEN FALSE ELSE fs)

\* str::lines: split at "\n" or "\r\n"; the final line ending is optional
RECURSIVE SplitLines(_, _, _)
SplitLines(text, i, cur) ==
    IF i > Len(text) THEN (IF cur = << >> THEN << >> ELSE <<cur>>)
    ELSE IF text[i] = "\n"
         THEN <<IF cur # << >> /\ cur[Len(cur)] = "\r" THEN SubSeq(cur, 1, Len(cur) - 1) ELSE cur>>
                  \o SplitLines(text, i + 1, << >>)
         ELSE SplitLines(text, i + 1, Append(cur, text[i]))

str_lines(text) == SplitLines(text, 1, << >>)

\* str::replace(from, ""): every non-overlapping occurrence of `from`, left to right, removed
RECURSIVE Remove(_, _, _)
Remove(text, from, i) ==
    IF i > Len(text) THEN << >>
    ELSE IF i + Len(from) - 1 <= Len(text) /\ SubSeq(text, i, i + Len(from) - 1) = from
         THEN Remove(text, from, i + Len(from))
         ELSE <<text[i]>> \o Remove(text, from, i + 1)

\* the click handler's line.replace("\x1b[4m", "")
StripUnderline(line) == Remove(line, <<ESC, "[", "4", "m">>, 1)

(***************************************************************************)
(* main.rs: run(), its constants and its start                             *)
(***************************************************************************)
OFFSET == 15
WIDTH == 80
\* the width of the line-number gutter the click handler subtracts
GUTTER == 8

\* the files the viewer is started on (read_content)
Contents ==
    { << >>,
      <<"_", "a", "b", "_", "\n", "a", ROMAN8, "2", "\n">> }

\* the sidecar files the viewer is started with (read_config): none, or a parsed record
MainSidecarFiles ==
    { None,
      Some([bookmarks |-> <<1, 0>>, markers |-> << >>]),
      Some([bookmarks |-> <<2>>, markers |-> << >>]) }

\* the documents the contents are loaded as, and the length of their longest line
Documents == {str_lines(ItalicScan(content, 1, FALSE, FALSE)) : content \in Contents}
LongestLine ==
    LET lens == {0} \cup UNION {{Len(doc[k]) : k \in 1..Len(doc)} : doc \in Documents}
    IN  CHOOSE n \in lens : \A m \in lens : m <= n

\* the terminal sizes read_size answers, <<cols, rows>>
Sizes == { <<84, 17>> }

\* the first bookmark greater than index, else index (the loop at the start of run and of g n)
NextBookmarkIndex(bookmarks, i) ==
    LET found == FirstGreater(bookmarks, i) IN IF found # None THEN found[1] ELSE i

\* the last bookmark less than index, else index (the loop of g p)
PrevBookmarkIndex(bookmarks, i) ==
    LET found == LastLess(bookmarks, i) IN IF found # None THEN found[1] ELSE i

\* run() up to its first render_page
InitMain ==
    /\ lines \in Documents
    /\ size \in Sizes
    /\ \E file \in MainSidecarFiles :
        LET config == IF file = None THEN [bookmarks |-> << >>, markers |-> << >>] ELSE file[1]
            sorted == [config EXCEPT !.bookmarks = Sort(@)]
        IN  /\ mstate = [config |-> sorted, index |-> 0, selection |-> None,
                         pad_left |-> SatSub(size[1] \div 2, WIDTH \div 2)]
            /\ index = NextBookmarkIndex(sorted.bookmarks, 0)
    /\ pc = "loop"
    /\ mlast = [event |-> <<"start">>, ok |-> TRUE, renders |-> <<"page">>,
                pc |-> "start", index |-> 0, pre |-> mstate]
    /\ mprev = None

(***************************************************************************)
(* main.rs: the handlers of the event loop                                 *)
(*                                                                         *)
(* An event is <<"char", c>> (KeyCode::Char), <<"esc">> (KeyCode::Esc),    *)
(* <<"key">> (any other key code), <<"click", col, row>>                   *)
(* (MouseEvent::Up(MouseButton::Left, col, row, _)) or <<"other">> (any    *)
(* other event: resize, other mouse events).  Calls of render_page and     *)
(* render_line are recorded, in order, as "page" and "line".  Their own    *)
(* terminal writes are taken to succeed; write_config may fail.            *)
(***************************************************************************)
\* the handlers with the `Some(index) => remove` arm lost: the item is always pushed
Toggle_always_push(v, x) == Append(v, x)

\* the x and m handlers: remove the item at its first position, or push it
Toggle(v, x) ==
    LET k == Position(v, x)
    IN  IF k # 0 THEN RemoveAt(v, k) ELSE Append(v, x)

\* the click handler's backward scan over the characters of class: `start` after
\* `for i in (0..col).rev()`
ScanStart(chars, col, class) ==
    LET stops == {i \in 0..(col - 1) : chars[i + 1] \notin class}
    IN  IF stops # {} THEN (CHOOSE i \in stops : \A j \in stops : j <= i) + 1
        ELSE IF col = 0 THEN col ELSE 0

\* the click handler's forward scan over the characters of class: `end` after
\* `for i in col..chars.len()`
ScanEnd(chars, col, class) ==
    LET stops == {i \in col..(Len(chars) - 1) : chars[i + 1] \notin class}
    IN  IF stops # {} THEN CHOOSE i \in stops : \A j \in stops : i <= j
        ELSE IF col >= Len(chars) THEN col ELSE Len(chars)

\* `if state.selection != Some(span) { state.selection = Some(span); render_page(..) }`
\* on r = [selection, renders]
Select(r, span) ==
    IF r.selection # Some(span)
    THEN [selection |-> Some(span), renders |-> Append(r.renders, "page")]
    ELSE r

\* the `mark words` block for the character at column col of chars
MarkWords(r, pos, chars, col) ==
    IF is_alphabetic(chars[col + 1])
    THEN Select(r, <<pos, ScanStart(chars, col, Alphabetic), ScanEnd(chars, col, Alphabetic)>>)
    ELSE r

\* the `mark numbers` block for the character at column col of chars
MarkNumbers(r, pos, chars, col) ==
    IF is_numeric(chars[col + 1])
    THEN Select(r, <<pos, ScanStart(chars, col, Numeric), ScanEnd(chars, col, Numeric)>>)
    ELSE r

\* the Event::Mouse arm without `if col >= state.pad_left + 8`
Click_no_gutter(doc, i, st, col, row) ==
    LET pos == SatSub(i + row, OFFSET)
        r0 == [selection |-> st.selection, renders |-> << >>]
        c == SatSub(SatSub(col, st.pad_left), GUTTER)
    IN  IF pos < Len(doc)
        THEN LET chars == StripUnderline(doc[pos + 1])
             IN  IF c < Len(chars)
                 THEN MarkNumbers(MarkWords(r0, pos, chars, c), pos, chars, c)
                 ELSE r0
        ELSE r0

\* the Event::Mouse arm: [selection, renders] after a left click at screen (col, row)
Click(doc, i, st, col, row) ==
    LET pos == SatSub(i + row, OFFSET)
        r0 == [selection |-> st.selection, renders |-> << >>]
    IN  IF col >= st.pad_left + GUTTER
        THEN LET c == SatSub(SatSub(col, st.pad_left), GUTTER)
             IN  IF pos < Len(doc)
                 THEN LET chars == StripUnderline(doc[pos + 1])
                      IN  IF c < Len(chars)
                          THEN MarkNumbers(MarkWords(r0, pos, chars, c), pos, chars, c)
                          ELSE r0
                 ELSE r0
        ELSE r0

\* one event handled: run() is left with index i2, state st2, at pc2, after the renders
Handled(ev, ok, i2, st2, pc2, renders) ==
    /\ index' = i2
    /\ mstate' = st2
    /\ pc' = pc2
    /\ mlast' = [event |-> ev, ok |-> ok, renders |-> renders, pc |-> pc, index |-> index, pre |-> mstate]
    /\ mprev' = IF mlast.event = <<"char", "m">> /\ mlast.pc = "loop" /\ mlast.pre.selection # None
                THEN Some(mlast.pre.config.markers)
                ELSE None
    /\ UNCHANGED <<lines, size>>
    /\ UNCHANGED libVars
    /\ UNCHANGED load

line_count == Len(lines)

\* 'q' => break
KeyQ ==
    /\ pc = "loop"
    /\ Handled(<<"char", "q">>, TRUE, index, mstate, "done", << >>)

\* 'j'
KeyJ ==
    /\ pc = "loop"
    /\ IF index < SatSub(line_count, 1)
       THEN Handled(<<"char", "j">>, TRUE, index + 1, mstate, "loop", <<"page">>)
       ELSE Handled(<<"char", "j">>, TRUE, index, mstate, "loop", << >>)

\* 'k'
KeyK ==
    /\ pc = "loop"
    /\ IF index > 0
       THEN Handled(<<"char", "k">>, TRUE, index - 1, mstate, "loop", <<"page">>)
       ELSE Handled(<<"char", "k">>, TRUE, index, mstate, "loop", << >>)

\* 'g' => loop: the inner loop is entered
KeyG ==
    /\ pc = "loop"
    /\ Handled(<<"char", "g">>, TRUE, index, mstate, "g", << >>)

\* 'x': toggle the bookmark of the current line, write the config, render the line;
\* a failed write leaves run() through `?` before the render
KeyX ==
    /\ pc = "loop"
    /\ \E ok \in BOOLEAN :
        LET st2 == [mstate EXCEPT !.config.bookmarks = Toggle(@, index)]
        IN  Handled(<<"char", "x">>, ok, index, st2,
                    IF ok THEN "loop" ELSE "failed", IF ok THEN <<"line">> ELSE << >>)

\* 'm': toggle the marker of the selection, write the config, render the line
KeyM ==
    /\ pc = "loop"
    /\ IF mstate.selection # None
       THEN \E ok \in BOOLEAN :
               LET st2 == [mstate EXCEPT !.config.markers = Toggle(@, mstate.selection[1])]
               IN  Handled(<<"char", "m">>, ok, index, st2,
                           IF ok THEN "loop" ELSE "failed", IF ok THEN <<"line">> ELSE << >>)
       ELSE Handled(<<"char", "m">>, TRUE, index, mstate, "loop", << >>)

\* any other character: `_ => ()`
KeyOtherChar ==
    /\ pc = "loop"
    /\ \E c \in {"e", "n", "p", "z"} :
        Handled(<<"char", c>>, TRUE, index, mstate, "loop", << >>)

\* KeyCode::Esc
KeyEsc ==
    /\ pc = "loop"
    /\ IF mstate.selection # None
       THEN Handled(<<"esc">>, TRUE, index, [mstate EXCEPT !.selection = None], "loop", <<"page">>)
       ELSE Handled(<<"esc">>, TRUE, index, mstate, "loop", << >>)

\* any other key code: `_ => ()`
KeyOther ==
    /\ pc = "loop"
    /\ Handled(<<"key">>, TRUE, index, mstate, "loop", << >>)

\* the screen positions the model clicks: the rows around the anchor row, and the
\* columns from the last gutter column to one past the longest line
ClickRows == (OFFSET - 1)..(OFFSET + 1)
ClickCols == (mstate.pad_left + GUTTER - 1)..(mstate.pad_left + GUTTER + LongestLine)

\* Event::Mouse(MouseEvent::Up(MouseButton::Left, col, row, _))
MouseUpLeft ==
    /\ pc = "loop"
    /\ \E col \in ClickCols, row \in ClickRows :
        /\ col < size[1]
        /\ row < size[2]
        /\ LET r == Click(lines, index, mstate, col, row)
           IN  Handled(<<"click", col, row>>, TRUE, index,
                       [mstate EXCEPT !.selection = r.selection], "loop", r.renders)

\* any other event: `_ => ()`
OtherEvent ==
    /\ pc = "loop"
    /\ Handled(<<"other">>, TRUE, index, mstate, "loop", << >>)

\* inner loop, 'g'
PendingG ==
    /\ pc = "g"
    /\ Handled(<<"char", "g">>, TRUE, 0, mstate, "loop", <<"page">>)

\* inner loop, 'e'
PendingE ==
    /\ pc = "g"
    /\ Handled(<<"char", "e">>, TRUE, SatSub(line_count, 1), mstate, "loop", <<"page">>)

\* inner loop, 'n'
PendingN ==
    /\ pc = "g"
    /\ LET i2 == NextBookmarkIndex(mstate.config.bookmarks, index)
       IN  Handled(<<"char", "n">>, TRUE, i2, mstate, "loop",
                   IF FirstGreater(mstate.config.bookmarks, index) # None THEN <<"page">> ELSE << >>)

\* inner loop, 'p'
PendingP ==
    /\ pc = "g"
    /\ LET i2 == PrevBookmarkIndex(mstate.config.bookmarks, index)
       IN  Handled(<<"char", "p">>, TRUE, i2, mstate, "loop",
                   IF LastLess(mstate.config.bookmarks, index) # None THEN <<"page">> ELSE << >>)

\* inner loop, KeyCode::Esc => break
PendingEsc ==
    /\ pc = "g"
    /\ Handled(<<"esc">>, TRUE, index, mstate, "loop", << >>)

\* the inner loop left by every event, the ignored ones included
PendingIgnored_leaves ==
    /\ pc = "g"
    /\ \E ev \in {<<"char", c>> : c \in {"q", "j", "k", "x", "m", "z"}}
                 \cup {<<"key">>, <<"other">>, <<"click", mstate.pad_left + GUTTER, OFFSET>>} :
        Handled(ev, TRUE, index, mstate, "loop", << >>)

\* inner loop: any other character or key code (`_ => ()`), and any event that
\* read_key does not return as a key (a click, a resize)
PendingIgnored ==
    /\ pc = "g"
    /\ \E ev \in {<<"char", c>> : c \in {"q", "j", "k", "x", "m", "z"}}
                 \cup {<<"key">>, <<"other">>, <<"click", mstate.pad_left + GUTTER, OFFSET>>} :
        Handled(ev, TRUE, index, mstate, "g", << >>)

\* the library is not exercised while the event loop runs
LibIdle ==
    /\ state = State_new(Config_default, [lines |-> << >>, line_count |-> 0, line_width |-> 80])
    /\ last = [op |-> "new", arg |-> None, ok |-> TRUE, pre |-> state, written |-> None, found |-> None]
    /\ nextFrom = None
    /\ lookup = None

InitM == InitMain /\ LibIdle /\ LoadIdle

NextMain ==
    \/ KeyQ
    \/ KeyJ
    \/ KeyK
    \/ KeyG
    \/ KeyX
    \/ KeyM
    \/ KeyOtherChar
    \/ KeyEsc
    \/ KeyOther
    \/ MouseUpLeft
    \/ OtherEvent
    \/ PendingG
    \/ PendingE
    \/ PendingN
    \/ PendingP
    \/ PendingEsc
    \/ PendingIgnored

SpecMain == InitM /\ [][NextMain]_vars

(***************************************************************************)
(* Claims about lib.rs, checked under Spec.                                *)
(***************************************************************************)
\* max(0, n - 1)
LastLine(n) == IF n - 1 > 0 THEN n - 1 ELSE 0

\* the set of the elements of a Vec
Elems(v) == {v[i] : i \in 1..Len(v)}

Min(S) == CHOOSE x \in S : \A y \in S : x <= y
Max(S) == CHOOSE x \in S : \A y \in S : x >= y

\* C1: after loading a Config and after any sequence of State operations,
\* line_number is in [0, max(0, book.line_count - 1)].
C1_LineNumberInRange ==
    /\ state.line_number >= 0
    /\ state.line_number <= LastLine(state.book.line_count)

\* C2: after Config::from_path and after any sequence of toggle_bookmark /
\* add_bookmark / remove_bookmark calls, config.bookmarks is strictly ascending
\* (sorted and free of duplicates).
C2_BookmarksStrictlyAscending ==
    \A i \in 1..(Len(state.config.bookmarks) - 1) :
        state.config.bookmarks[i] < state.config.bookmarks[i + 1]

\* C4: move_up called with line_number = 0 and move_down called with
\* line_number = max(0, line_count - 1) leave every field of State unchanged,
\* update_screen included.
C4_BoundaryMoveIsNoOp ==
    /\ (last.op = "move_up" /\ last.pre.line_number = 0) => state = last.pre
    /\ (last.op = "move_down" /\ last.pre.line_number = LastLine(last.pre.book.line_count))
            => state = last.pre

\* move_down was called on the last line of a document of two or more lines with a clean screen
C4_Witness ==
    /\ last.op = "move_down"
    /\ last.pre.book.line_count >= 2
    /\ last.pre.line_number = last.pre.book.line_count - 1
    /\ ~last.pre.update_screen

\* C5: goto_next_bookmark sets line_number to the smallest bookmark strictly
\* greater than the current line_number and sets the dirty flag; when there is
\* no such bookmark it leaves line_number and update_screen unchanged.
C5_NextBookmarkIsSmallestGreater ==
    last.op = "goto_next_bookmark" =>
        LET l == last.pre.line_number
            G == {b \in Elems(last.pre.config.bookmarks) : b > l}
        IN  IF G # {}
            THEN state.line_number = Min(G) /\ state.update_screen
            ELSE state.line_number = l /\ state.update_screen = last.pre.update_screen

\* goto_next_bookmark was called with a clean screen and two distinct bookmarks ahead
C5_Witness ==
    /\ last.op = "goto_next_bookmark"
    /\ ~last.pre.update_screen
    /\ Cardinality({b \in Elems(last.pre.config.bookmarks) : b > last.pre.line_number}) >= 2
    /\ state.line_number > last.pre.line_number

\* C6: goto_prev_bookmark sets line_number to the largest bookmark strictly less
\* than the current line_number and sets the dirty flag; when there is no such
\* bookmark it leaves line_number and update_screen unchanged.
C6_PrevBookmarkIsLargestLess ==
    last.op = "goto_prev_bookmark" =>
        LET l == last.pre.line_number
            L == {b \in Elems(last.pre.config.bookmarks) : b < l}
        IN  IF L # {}
            THEN state.line_number = Max(L) /\ state.update_screen
            ELSE state.line_number = l /\ state.update_screen = last.pre.update_screen

\* goto_prev_bookmark was called with a clean screen and two distinct bookmarks behind
C6_Witness ==
    /\ last.op = "goto_prev_bookmark"
    /\ ~last.pre.update_screen
    /\ Cardinality({b \in Elems(last.pre.config.bookmarks) : b < last.pre.line_number}) >= 2
    /\ state.line_number < last.pre.line_number

\* C7: round trip: from line_number = l with some bookmark <= l,
\* goto_next_bookmark followed by goto_prev_bookmark ends with line_number <= l.
C7_NextThenPrevRoundTrip ==
    (/\ nextFrom # None
     /\ last.op = "goto_prev_bookmark"
     /\ \E b \in Elems(state.config.bookmarks) : b <= nextFrom[1])
        => state.line_number <= nextFrom[1]

\* goto_next_bookmark moved forward from l, and goto_prev_bookmark came back to a bookmark <= l
C7_Witness ==
    /\ nextFrom # None
    /\ last.op = "goto_prev_bookmark"
    /\ \E b \in Elems(state.config.bookmarks) : b <= nextFrom[1]
    /\ last.pre.line_number > nextFrom[1]
    /\ state.line_number <= nextFrom[1]

(***************************************************************************)
(* lib.rs: the selection calls alone, checked under SpecSelection.         *)
(***************************************************************************)
NextSelection ==
    \/ SetSelection
    \/ ClearSelection
    \/ Render

SpecSelection == Init /\ [][NextSelection]_vars

\* C9 (lib.rs half): set_selection with the triple already selected changes
\* nothing, the dirty flag included; with any other triple it replaces the
\* selection and sets the dirty flag.
C9_SetSelectionIdempotent ==
    last.op = "set_selection" =>
        IF last.pre.selection = last.arg
        THEN state = last.pre
        ELSE state = [last.pre EXCEPT !.selection = last.arg, !.update_screen = TRUE]

(***************************************************************************)
(* Claims about main.rs, checked under SpecMain.                           *)
(***************************************************************************)
\* the latest event was handled by the outer loop of run()
InLoop(kind) == mlast.pc = "loop" /\ mlast.event[1] = kind

\* the latest event was the key c, handled by the outer loop of run()
CharInLoop(c) == mlast.pc = "loop" /\ mlast.event = <<"char", c>>

\* C3: in the event loop, state.config.bookmarks is in ascending sorted order at
\* startup and after any sequence of key events, in particular after every `x`.
C3_MainBookmarksSorted ==
    pc \in {"loop", "g"} =>
        \A i \in 1..(Len(mstate.config.bookmarks) - 1) :
            mstate.config.bookmarks[i] <= mstate.config.bookmarks[i + 1]

\* the latest two events were `m` presses with a selection, both carried through
\* (config written, line rendered); mprev holds the markers before the first
TwoMarkerToggles == mprev # None /\ CharInLoop("m") /\ mlast.pre.selection # None /\ mlast.ok

\* C8 as claimed: pressing `m` twice in a row returns the marker sequence
\* state.config.markers to its original state.
C8_MarkerToggleSelfInverse ==
    TwoMarkerToggles => mstate.config.markers = mprev[1]

\* C8 as amended: pressing `m` twice in a row with selection s returns the
\* marker sequence to its original state when s was not among the markers; when
\* s occurred once, the sequence ends as the original with s moved to its end
\* (the same set of markers, in another order unless s was the last).
C8_MarkerToggleTwice ==
    TwoMarkerToggles =>
        LET s == mlast.pre.selection[1]
            original == mprev[1]
            count == Cardinality({i \in 1..Len(original) : original[i] = s})
        IN  /\ count = 0 => mstate.config.markers = original
            /\ count = 1 => mstate.config.markers
                                = SelectSeq(original, LAMBDA x : x # s) \o <<s>>

\* `m` was pressed twice on a span that was not marked, other markers being present
C8_Witness ==
    /\ TwoMarkerToggles
    /\ mprev[1] # << >>
    /\ \A i \in 1..Len(mprev[1]) : mprev[1][i] # mlast.pre.selection[1]
    /\ mstate.config.markers = mprev[1]

\* C9 (main.rs half): a left click that leaves the selection as it was issues no
\* repaint, and a click that selects a different span repaints exactly once.
C9_ClickSelectionIdempotent ==
    InLoop("click") =>
        IF mstate.selection = mlast.pre.selection
        THEN mlast.renders = << >>
        ELSE mlast.renders = <<"page">>

\* the maximal run of characters of class around column c of line: its first
\* column and the column after its last
RunStart(line, c, class) ==
    CHOOSE a \in 0..c :
        /\ \A j \in a..c : line[j + 1] \in class
        /\ a > 0 => line[a] \notin class
RunEnd(line, c, class) ==
    CHOOSE e \in (c + 1)..Len(line) :
        /\ \A j \in c..(e - 1) : line[j + 1] \in class
        /\ e < Len(line) => line[e + 1] \notin class

\* C10: a click that resolves to a column col whose character is alphabetic
\* (resp. numeric) sets the selection to (pos, start, end), [start, end) being
\* the maximal run of alphabetic (resp. numeric) characters containing col,
\* with start <= col < end <= length of the line.
C10_ClickSelectsMaximalRun ==
    (/\ InLoop("click")
     /\ mlast.event[2] >= mlast.pre.pad_left + GUTTER
     /\ mlast.index + mlast.event[3] >= OFFSET
     /\ mlast.index + mlast.event[3] - OFFSET < Len(lines))
        => LET pos == mlast.index + mlast.event[3] - OFFSET
               col == mlast.event[2] - mlast.pre.pad_left - GUTTER
               line == lines[pos + 1]
           IN  col < Len(line) =>
                   /\ is_alphabetic(line[col + 1]) =>
                        /\ mstate.selection = Some(<<pos, RunStart(line, col, Alphabetic),
                                                          RunEnd(line, col, Alphabetic)>>)
                        /\ RunStart(line, col, Alphabetic) <= col
                        /\ col < RunEnd(line, col, Alphabetic)
                        /\ RunEnd(line, col, Alphabetic) <= Len(line)
                   /\ is_numeric(line[col + 1]) =>
                        /\ mstate.selection = Some(<<pos, RunStart(line, col, Numeric),
                                                          RunEnd(line, col, Numeric)>>)
                        /\ RunStart(line, col, Numeric) <= col
                        /\ col < RunEnd(line, col, Numeric)
                        /\ RunEnd(line, col, Numeric) <= Len(line)

\* the latest event was a left click handled by the outer loop; the document line
\* and the column the handler resolves it to
ClickPos == SatSub(mlast.index + mlast.event[3], OFFSET)
ClickCol == mlast.event[2] - mlast.pre.pad_left - GUTTER
ClickInGutter == mlast.event[2] < mlast.pre.pad_left + GUTTER
ClickPastEnd == ~ClickInGutter /\ ClickPos < Len(lines) /\ ClickCol >= Len(lines[ClickPos + 1])
ClickOnOther ==
    /\ ~ClickInGutter
    /\ ClickPos < Len(lines)
    /\ ClickCol < Len(lines[ClickPos + 1])
    /\ ~is_alphabetic(lines[ClickPos + 1][ClickCol + 1])
    /\ ~is_numeric(lines[ClickPos + 1][ClickCol + 1])

\* C11: a left click that resolves to a character that is neither alphabetic nor
\* numeric, to the gutter (screen column < pad_left + 8) or to a column past the
\* end of the line leaves selection, index, bookmarks and markers unchanged and
\* issues no repaint.
C11_OtherClicksChangeNothing ==
    (InLoop("click") /\ (ClickInGutter \/ ClickPastEnd \/ ClickOnOther)) =>
        /\ mstate.selection = mlast.pre.selection
        /\ index = mlast.index
        /\ mstate.config.bookmarks = mlast.pre.config.bookmarks
        /\ mstate.config.markers = mlast.pre.config.markers
        /\ mlast.renders = << >>

\* with a span selected, a bookmark and a marker present, a click hit a character
\* that is neither alphabetic nor numeric
C11_Witness ==
    /\ InLoop("click")
    /\ ClickOnOther
    /\ mlast.pre.selection # None
    /\ mlast.pre.config.bookmarks # << >>
    /\ mlast.pre.config.markers # << >>
    /\ mstate = mlast.pre

(***************************************************************************)
(* lib.rs: Book::from_path, checked under SpecBook.                        *)
(*                                                                         *)
(* The two marker strings are single tokens of a content: neither is a     *)
(* part of the other and they cannot overlap, so `contains` on a text or   *)
(* on a line is the presence of the token.                                 *)
(***************************************************************************)
LICENSE_START == "START OF THE PROJECT GUTENBERG"
LICENSE_END == "END OF THE PROJECT GUTENBERG"

\* the contents of a file have at most MaxContentLen characters
MaxContentLen == 5

\* str::contains for a marker
contains(text, marker) == \E i \in 1..Len(text) : text[i] = marker

\* [&str]::join
RECURSIVE join(_, _)
join(ls, sep) ==
    IF ls = << >> THEN << >>
    ELSE IF Len(ls) = 1 THEN ls[1]
    ELSE ls[1] \o <<sep>> \o join(Tail(ls), sep)

\* the loop of remove_license with the start-marker line itself taken as content
RECURSIVE LicenseLoop_from_start(_, _, _)
LicenseLoop_from_start(ls, i, is_content) ==
    IF i > Len(ls) THEN << >>
    ELSE IF contains(ls[i], LICENSE_END) THEN << >>
    ELSE LET c == is_content \/ contains(ls[i], LICENSE_START)
         IN  (IF c THEN <<ls[i]>> ELSE << >>) \o LicenseLoop_from_start(ls, i + 1, c)

\* remove_license keeping the start-marker line
remove_license_from_start(content) ==
    IF ~contains(content, LICENSE_START) \/ ~contains(content, LICENSE_END)
    THEN content
    ELSE join(LicenseLoop_from_start(str_lines(content), 1, FALSE), "\n")

\* the loop of remove_license from line i on (1-based), with the flag is_content:
\* the lines it pushes
RECURSIVE LicenseLoop(_, _, _)
LicenseLoop(ls, i, is_content) ==
    IF i > Len(ls) THEN << >>
    ELSE IF contains(ls[i], LICENSE_END) THEN << >>
    ELSE (IF is_content THEN <<ls[i]>> ELSE << >>)
            \o LicenseLoop(ls, i + 1, is_content \/ contains(ls[i], LICENSE_START))

\* Book::remove_license
remove_license(content) ==
    IF ~contains(content, LICENSE_START) \/ ~contains(content, LICENSE_END)
    THEN content
    ELSE join(LicenseLoop(str_lines(content), 1, FALSE), "\n")

\* highlight_italic with every `_` replaced by ITALIC
highlight_italic_always_on(content) ==
    [i \in 1..Len(content) |-> IF content[i] = "_" THEN ITALIC ELSE content[i]]

\* highlight_italic with nothing done at a newline: the underscores alone are replaced
highlight_italic_no_break(content) ==
    [i \in 1..Len(content) |->
        IF content[i] = "_"
        THEN (IF Cardinality({j \in 1..i : content[j] = "_"}) % 2 = 1 THEN ITALIC ELSE RESET_ITALIC)
        ELSE content[i]]

\* Book::highlight_italic: the scan main.rs repeats in run()
highlight_italic(content) == ItalicScan(content, 1, FALSE, FALSE)

\* the files Book::from_path reads
FileChars == {"a", "_", " ", "\n", LICENSE_START, LICENSE_END}
FileContents == SeqsUpTo(FileChars, MaxContentLen)

\* fs::read_to_string has returned the content
InitBook ==
    /\ load \in {[pc |-> "read", read |-> c] : c \in FileContents}
    /\ LibIdle
    /\ MainIdle

\* one step of Book::from_path
Loaded(next) ==
    /\ load' = next
    /\ UNCHANGED libVars
    /\ UNCHANGED mainVars

\* content = Book::remove_license(&content)
LoadRemoveLicense ==
    /\ load.pc = "read"
    /\ Loaded([pc |-> "stripped", read |-> load.read, stripped |-> remove_license(load.read)])

\* content = Book::highlight_italic(&content)
LoadHighlightItalic ==
    /\ load.pc = "stripped"
    /\ Loaded([pc |-> "encoded", read |-> load.read, stripped |-> load.stripped,
               encoded |-> highlight_italic(load.stripped)])

\* content.lines() collected into the Book
LoadLines ==
    /\ load.pc = "encoded"
    /\ LET ls == str_lines(load.encoded)
       IN  Loaded([pc |-> "book", read |-> load.read, stripped |-> load.stripped,
                   encoded |-> load.encoded,
                   book |-> [lines |-> ls, line_count |-> Len(ls), line_width |-> 80]])

NextBook ==
    \/ LoadRemoveLicense
    \/ LoadHighlightItalic
    \/ LoadLines

SpecBook == InitBook /\ [][NextBook]_vars

\* the lines of a text that contain the marker, as 1-based line numbers
MarkerLines(text, marker) ==
    {k \in 1..Len(str_lines(text)) : \E i \in 1..Len(str_lines(text)[k]) : str_lines(text)[k][i] = marker}

\* the lines strictly between the first start-marker line and the first
\* end-marker line of a text that has both
LinesBetween(text) ==
    LET s == Min(MarkerLines(text, LICENSE_START))
        e == Min(MarkerLines(text, LICENSE_END))
    IN  SubSeq(str_lines(text), s + 1, e - 1)

\* C12: for a text that contains both markers the output of remove_license
\* consists exactly of the lines strictly between the start-marker line and the
\* end-marker line; for a text without end marker (with or without start marker)
\* the output equals the input.
C12_LicenseStripped ==
    load.pc \in {"stripped", "encoded", "book"} =>
        LET hasStart == \E i \in 1..Len(load.read) : load.read[i] = LICENSE_START
            hasEnd == \E i \in 1..Len(load.read) : load.read[i] = LICENSE_END
        IN  /\ (hasStart /\ hasEnd) => load.stripped = join(LinesBetween(load.read), "\n")
            /\ ~hasEnd => load.stripped = load.read

\* a start-marker line, a line of text and an end-marker line were stripped to the line of text
C12_Witness ==
    /\ load.pc = "stripped"
    /\ load.read = <<LICENSE_START, "\n", "a", "\n", LICENSE_END>>
    /\ load.stripped = <<"a">>

\* the number of underscores among the first i characters of a text
Underscores(text, i) == Cardinality({j \in 1..i : text[j] = "_"})

\* C13: for a text without newlines highlight_italic replaces the k-th underscore
\* by ITALIC when k is odd and by RESET_ITALIC when k is even, and passes every
\* other character through unchanged and in order; it emits no underscore and
\* no other sentinel.
C13_EmphasisOnOneLine ==
    (load.pc \in {"encoded", "book"} /\ \A i \in 1..Len(load.stripped) : load.stripped[i] # "\n") =>
        /\ Len(load.encoded) = Len(load.stripped)
        /\ \A i \in 1..Len(load.stripped) :
            load.encoded[i] =
                IF load.stripped[i] = "_"
                THEN (IF Underscores(load.stripped, i) % 2 = 1 THEN ITALIC ELSE RESET_ITALIC)
                ELSE load.stripped[i]

\* a word between two underscores was encoded: ITALIC right before it, RESET_ITALIC right after
C13_Witness ==
    /\ load.pc = "encoded"
    /\ load.stripped = <<"a", "_", "a", "_", "a">>
    /\ load.encoded = <<"a", ITALIC, "a", RESET_ITALIC, "a">>

(***************************************************************************)
(* Claims about the bookmark calls of lib.rs, checked under Spec.          *)
(***************************************************************************)
\* C14: every call of toggle_bookmark(line) flips the membership of exactly that
\* line in config.bookmarks, is followed by a write of the config to the sidecar
\* file, and ends with the dirty flag update_screen set.
C14_ToggleFlipsWritesDirties ==
    last.op = "toggle_bookmark" =>
        LET n == last.arg[1]
            before == Elems(last.pre.config.bookmarks)
            after == Elems(state.config.bookmarks)
        IN  /\ (n \in after) = (n \notin before)
            /\ after \ {n} = before \ {n}
            /\ last.ok => last.written = Some(state.config)
            /\ state.update_screen

(***************************************************************************)
(* lib.rs: the calls that write the sidecar file, checked under SpecConfig.*)
(***************************************************************************)
\* Option<bool>::unwrap_or_default
unwrap_or_default(o) == IF o = None THEN FALSE ELSE o[1]

\* State::toggle_focus_mode, the State it leaves; on a failed Config::write the
\* `?` returns before the message and the dirty flag are set
toggle_focus_mode(s, ok) ==
    LET t == [s EXCEPT !.config.focus_mode = Some(~unwrap_or_default(@))]
    IN  IF ok THEN update_screen(show_message(t, "(i) Toggled focus mode")) ELSE t

ToggleFocusMode ==
    \E ok \in BOOLEAN :
        /\ state' = toggle_focus_mode(state, ok)
        /\ Called("toggle_focus_mode", None, ok, Config_write(state'.config, ok))

NextConfig ==
    \/ ToggleBookmark
    \/ AddBookmark
    \/ RemoveBookmark
    \/ ToggleFocusMode
    \/ Render

SpecConfig == Init /\ [][NextConfig]_vars

\* the latest call reached Config::write, the write failed and the call returned its error
WriteFailed(op) == last.op = op /\ ~last.ok

\* C15: when Config::write fails during add_bookmark, remove_bookmark or
\* toggle_focus_mode, the call returns the error and the mutation made in
\* memory (bookmark inserted or removed, focus mode flipped) is retained.
C15_FailedWriteKeepsMutation ==
    LET before == last.pre.config.bookmarks
        after == state.config.bookmarks
    IN  /\ WriteFailed("add_bookmark") =>
            /\ last.written = None
            /\ last.arg[1] \notin Elems(before)
            /\ Elems(after) = Elems(before) \cup {last.arg[1]}
            /\ Len(after) = Len(before) + 1
        /\ WriteFailed("remove_bookmark") =>
            /\ last.written = None
            /\ \E i \in 1..Len(before) :
                /\ before[i] = last.arg[1]
                /\ after = SubSeq(before, 1, i - 1) \o SubSeq(before, i + 1, Len(before))
        /\ WriteFailed("toggle_focus_mode") =>
            /\ last.written = None
            /\ state.config.focus_mode = Some(~(last.pre.config.focus_mode = Some(TRUE)))

\* the write failed during remove_bookmark and during the toggle_focus_mode
\* before it: the bookmark is gone and the focus mode is still flipped
C15_Witness ==
    /\ WriteFailed("remove_bookmark")
    /\ last.arg[1] \in Elems(last.pre.config.bookmarks)
    /\ last.arg[1] \notin Elems(state.config.bookmarks)
    /\ state.config.focus_mode = Some(TRUE)
    /\ state.message = None

(***************************************************************************)
(* lib.rs: resize, selection and the definition overlay, checked under     *)
(* SpecView.                                                               *)
(*                                                                         *)
(* define_selection is an async fn: it runs up to `reqwest::get(url).await`*)
(* (action DefineSelection), resumes when the response arrives or the      *)
(* request fails (DefineGet), and resumes again when the body is read as   *)
(* JSON or that fails (DefineJson).  Its future borrows the State mutably  *)
(* from the call to its completion.                                        *)
(***************************************************************************)
\* the terminal sizes a client passes to resize_screen
ScreenWidths == {79, 82}
ScreenHeights == {24}

\* resize_screen that returns early when the dimensions are the stored ones
resize_screen_if_changed(s, w, h) ==
    IF s.screen_width = w /\ s.screen_height = h
    THEN s
    ELSE update_screen([s EXCEPT !.screen_width = w, !.screen_height = h,
                                 !.pad_left = SatSub(w \div 2, s.book.line_width \div 2)])

\* State::resize_screen
resize_screen(s, w, h) ==
    update_screen([s EXCEPT !.screen_width = w, !.screen_height = h,
                            !.pad_left = SatSub(w \div 2, s.book.line_width \div 2)])

\* State::clear_definition
clear_definition(s) ==
    IF s.definition # None
    THEN update_screen([s EXCEPT !.definition = None])
    ELSE s

\* the length of a character in UTF-8: the sentinels (U+E000..U+E202) and U+2167
\* take three bytes, the other characters of the model one
len_utf8(c) ==
    IF c \in {ITALIC, RESET_ITALIC, RESET_BACKGROUND, BACKGROUND_MARKER, BACKGROUND_SELECTION, ROMAN8}
    THEN 3 ELSE 1

\* the byte offset of the character after the first k characters of a line
RECURSIVE ByteOffset(_, _)
ByteOffset(line, k) == IF k = 0 THEN 0 ELSE ByteOffset(line, k - 1) + len_utf8(line[k])

\* str::get(start..end): the byte range start..end of a line, None unless
\* start <= end <= the length in bytes and both lie on character boundaries
str_get(line, start, end) ==
    LET from == {k \in 0..Len(line) : ByteOffset(line, k) = start}
        to == {k \in 0..Len(line) : ByteOffset(line, k) = end}
    IN  IF start <= end /\ from # {} /\ to # {}
        THEN Some(SubSeq(line, (CHOOSE k \in from : TRUE) + 1, CHOOSE k \in to : TRUE))
        ELSE None

\* State::get_text
get_text(s, sel) ==
    IF sel[1] < Len(s.book.lines)
    THEN str_get(s.book.lines[sel[1] + 1], sel[2], sel[3])
    ELSE None

\* the JSON values the dictionary answers for a word: an empty array, or an array
\* whose first entry has the word and one meaning with one definition
Jsons(text) == { << >>, <<[word |-> text, definitions |-> <<"a definition">>]>> }

\* Definition::from_json
from_json(value) ==
    IF value = << >> THEN None
    ELSE Some([word |-> value[1].word, list |-> value[1].definitions])

\* the end of define_selection: `self.definition = Some((selection, definition)); self.update_screen()`
define_selection_found(s, selection, definition) ==
    update_screen([s EXCEPT !.definition = Some(<<selection, definition>>)])

ResizeScreen ==
    \E w \in ScreenWidths, h \in ScreenHeights :
        /\ state' = resize_screen(state, w, h)
        /\ Called("resize_screen", Some(<<w, h>>), TRUE, None)

ClearDefinition ==
    /\ state' = clear_definition(state)
    /\ Called("clear_definition", None, TRUE, None)

\* define_selection returns: the borrow of the State ends
Returned(s2, ok, found) ==
    /\ state' = s2
    /\ lookup' = None
    /\ last' = [op |-> "define_selection", arg |-> Some(lookup[1].selection), ok |-> ok,
                pre |-> lookup[1].pre, written |-> None, found |-> found]
    /\ nextFrom' = None
    /\ UNCHANGED load
    /\ UNCHANGED mainVars

\* define_selection is called: it returns at once without selection or text, and
\* otherwise suspends at `reqwest::get(url).await`
DefineSelection ==
    IF state.selection = None
    THEN /\ state' = show_message(state, "(i) No selection found")
         /\ Called("define_selection", None, TRUE, None)
    ELSE IF get_text(state, state.selection[1]) = None
    THEN /\ state' = show_message(state, "(i) No text at specified selection")
         /\ Called("define_selection", None, TRUE, None)
    ELSE /\ Exclusive
         /\ lookup' = Some([selection |-> state.selection[1],
                            text |-> get_text(state, state.selection[1])[1],
                            at |-> "get", pre |-> state])
         /\ UNCHANGED <<state, last, nextFrom, load>>
         /\ UNCHANGED mainVars

\* `reqwest::get(url).await?`: the response arrives, or the request fails and
\* define_selection returns the error
DefineGet ==
    /\ lookup # None
    /\ lookup[1].at = "get"
    /\ \E ok \in BOOLEAN :
        IF ok
        THEN /\ lookup' = Some([lookup[1] EXCEPT !.at = "json"])
             /\ UNCHANGED <<state, last, nextFrom, load>>
             /\ UNCHANGED mainVars
        ELSE Returned(state, FALSE, None)

\* `res.json().await?` and the rest of define_selection
DefineJson ==
    /\ lookup # None
    /\ lookup[1].at = "json"
    /\ \E ok \in BOOLEAN, value \in Jsons(lookup[1].text) :
        IF ~ok THEN Returned(state, FALSE, None)
        ELSE IF from_json(value) = None
        THEN Returned(show_message(state, "(i) No definition found"), TRUE, None)
        ELSE Returned(define_selection_found(state, lookup[1].selection, from_json(value)[1]),
                      TRUE, from_json(value))

NextView ==
    \/ SetSelection
    \/ ClearSelection
    \/ ResizeScreen
    \/ ClearDefinition
    \/ DefineSelection
    \/ DefineGet
    \/ DefineJson
    \/ Render

SpecView == Init /\ [][NextView]_vars

\* C16: resize_screen(w, h) always sets the dirty flag, even when w and h are the
\* stored dimensions, sets pad_left to max(0, w/2 - 40) without underflow, and
\* leaves line_number, selection, definition and config unchanged.
C16_ResizeAlwaysDirty ==
    last.op = "resize_screen" =>
        LET w == last.arg[1][1]
        IN  /\ state.update_screen
            /\ state.pad_left = (IF w \div 2 - 40 > 0 THEN w \div 2 - 40 ELSE 0)
            /\ w \div 2 < 40 => state.pad_left = 0
            /\ state.line_number = last.pre.line_number
            /\ state.selection = last.pre.selection
            /\ state.definition = last.pre.definition
            /\ state.config = last.pre.config

\* resize_screen was called on a clean screen with the stored dimensions, of a
\* width below the width of the book
C16_Witness ==
    /\ last.op = "resize_screen"
    /\ ~last.pre.update_screen
    /\ last.pre.screen_width = last.arg[1][1]
    /\ last.pre.screen_height = last.arg[1][2]
    /\ last.arg[1][1] \div 2 < 40
    /\ last.pre.selection # None

\* the latest call was a define_selection that started a lookup and has returned
LookupReturned == last.op = "define_selection" /\ last.arg # None

\* C17: after clear_definition the definition overlay is None, and after a
\* define_selection call that started a lookup has returned (definition found,
\* none found, or request error) the overlay is None or the result of that
\* lookup, never the overlay of an earlier lookup.
C17_OverlayClearedOnNewLookup ==
    /\ last.op = "clear_definition" => state.definition = None
    /\ LookupReturned =>
        \/ state.definition = None
        \/ /\ last.found # None
           /\ state.definition = Some(<<last.arg[1], last.found[1]>>)

\* C18: from the start of define_selection to its completion no other State
\* operation interleaves, and when it completes with a definition d,
\* definition = Some((s, d)) for the selection s captured at the start,
\* selection is still s and the dirty flag is set.
C18_LookupIsAtomic ==
    /\ lookup # None => state = lookup[1].pre
    /\ (LookupReturned /\ last.found # None) =>
        /\ last.pre.selection = Some(last.arg[1])
        /\ state.selection = Some(last.arg[1])
        /\ state.definition = Some(<<last.arg[1], last.found[1]>>)
        /\ state.update_screen
        /\ state = [last.pre EXCEPT !.definition = Some(<<last.arg[1], last.found[1]>>),
                                    !.update_screen = TRUE]

\* a lookup called on a clean screen, with the overlay of an earlier lookup of
\* another selection in place, has completed with a definition
C18_Witness ==
    /\ LookupReturned
    /\ last.found # None
    /\ ~last.pre.update_screen
    /\ last.pre.definition # None
    /\ last.pre.definition[1][1] # last.arg[1]
    /\ state.definition = Some(<<last.arg[1], last.found[1]>>)

(***************************************************************************)
(* main.rs: render_page, on the states of SpecMain.                        *)
(*                                                                         *)
(* The page is a sequence of `rows` screen rows, row i at position i + 1:  *)
(* None for a row left blank, and otherwise the document line shown with   *)
(* its line number and its text after the two insertion passes (as         *)
(* sentinels, before they are translated to escape sequences).             *)
(***************************************************************************)
\* one insertion pass over line.chars().enumerate(), from character i on (0-based)
RECURSIVE InsertFrom(_, _, _, _, _)
InsertFrom(line, i, start, end, on) ==
    IF i >= Len(line) THEN << >>
    ELSE (IF i = start THEN <<on>> ELSE << >>)
            \o (IF i = end THEN <<RESET_BACKGROUND>> ELSE << >>)
            \o <<line[i + 1]>>
            \o InsertFrom(line, i + 1, start, end, on)

\* `insert selections`
InsertSelection(line, pos, selection) ==
    IF selection # None /\ selection[1][1] = pos
    THEN InsertFrom(line, 0, selection[1][2], selection[1][3], BACKGROUND_SELECTION)
    ELSE line

\* `insert markers`, from marker k on (1-based), each pass on the line the previous one left
RECURSIVE InsertMarkers(_, _, _, _)
InsertMarkers(line, pos, markers, k) ==
    IF k > Len(markers) THEN line
    ELSE InsertMarkers(IF markers[k][1] = pos
                       THEN InsertFrom(line, 0, markers[k][2], markers[k][3], BACKGROUND_MARKER)
                       ELSE line,
                       pos, markers, k + 1)

\* the line render_page composes for document line pos
Composite(doc, pos, st) ==
    InsertMarkers(InsertSelection(doc[pos + 1], pos, st.selection), pos, st.config.markers, 1)

\* render_page: the rows it writes
render_page(doc, i, rows, st) ==
    [r \in 1..rows |->
        IF i + (r - 1) >= OFFSET /\ SatSub(i + (r - 1), OFFSET) < Len(doc)
        THEN Some([line_number |-> SatSub(i + (r - 1), OFFSET),
                   text |-> Composite(doc, SatSub(i + (r - 1), OFFSET), st)])
        ELSE None]

\* the latest event ended with render_page on the current index and state
PageRendered ==
    /\ mlast.renders # << >>
    /\ mlast.renders[Len(mlast.renders)] = "page"

\* the page on the screen
Page == render_page(lines, index, size[2], mstate)

\* C19: screen row i < rows shows document line index + i - 15 exactly when
\* index + i >= 15 and index + i - 15 < line_count, and is blank otherwise; hence
\* whenever rows > 15 and the document is not empty, row 15 shows line index.
C19_RowMapping ==
    PageRendered =>
        /\ \A i \in 0..(size[2] - 1) :
            IF index + i >= 15 /\ index + i - 15 < Len(lines)
            THEN Page[i + 1] # None /\ Page[i + 1][1].line_number = index + i - 15
            ELSE Page[i + 1] = None
        /\ (size[2] > 15 /\ Len(lines) > 0) =>
            Page[16] # None /\ Page[16][1].line_number = index

\* the number of occurrences of a character in a line
Count(line, c) == Cardinality({i \in 1..Len(line) : line[i] = c})

\* the spans of the selection and of the markers that lie on line pos within its length
ValidSpan(span) ==
    /\ span[1] < Len(lines)
    /\ span[2] <= span[3]
    /\ span[3] <= Len(lines[span[1] + 1])
SelectionOn(pos) ==
    {s \in {mstate.selection} : s # None /\ s[1][1] = pos}
MarkersOn(pos) ==
    {k \in 1..Len(mstate.config.markers) : mstate.config.markers[k][1] = pos}

\* C20: for every selection or marker span (pos, start, end) with
\* start <= end <= length of line pos, the composited line holds that layer's
\* own pair of sentinels, one background-on sentinel and one RESET_BACKGROUND,
\* the selection's at columns start and end, so that every background-on
\* sentinel is followed by an off sentinel on the same line.
C20_SpanSentinelsPaired ==
    \A pos \in 0..(Len(lines) - 1) :
        ((\A s \in SelectionOn(pos) : ValidSpan(s[1]))
            /\ \A k \in MarkersOn(pos) : ValidSpan(mstate.config.markers[k])) =>
            LET c == Composite(lines, pos, mstate)
                first == InsertSelection(lines[pos + 1], pos, mstate.selection)
            IN  /\ Count(c, BACKGROUND_SELECTION) = Cardinality(SelectionOn(pos))
                /\ Count(c, BACKGROUND_MARKER) = Cardinality(MarkersOn(pos))
                /\ Count(c, RESET_BACKGROUND)
                        = Cardinality(SelectionOn(pos)) + Cardinality(MarkersOn(pos))
                /\ \A s \in SelectionOn(pos) :
                        /\ first[s[1][2] + 1] = BACKGROUND_SELECTION
                        /\ first[s[1][3] + 2] = RESET_BACKGROUND
                /\ \A i \in 1..Len(c) :
                        c[i] \in {BACKGROUND_SELECTION, BACKGROUND_MARKER} =>
                            \E j \in (i + 1)..Len(c) : c[j] = RESET_BACKGROUND

\* the selection is a span of line pos in Unicode scalar positions
ScalarSpan(s, sel) ==
    /\ sel[1] < Len(s.book.lines)
    /\ sel[2] <= sel[3]
    /\ sel[3] <= Len(s.book.lines[sel[1] + 1])

\* C21: get_text((pos, start, end)) returns, for every span with
\* start <= end <= number of Unicode scalars of line pos, the characters at the
\* scalar positions [start, end) of the encoded line pos, also on lines with
\* multi-byte characters or sentinels before or inside the span; so the word a
\* lookup sends to the dictionary is the selected text.
C21_GetTextByScalars ==
    /\ (state.selection # None /\ ScalarSpan(state, state.selection[1])) =>
            get_text(state, state.selection[1])
                = Some(SubSeq(state.book.lines[state.selection[1][1] + 1],
                              state.selection[1][2] + 1, state.selection[1][3]))
    /\ lookup # None =>
            lookup[1].text = SubSeq(state.book.lines[lookup[1].selection[1] + 1],
                                    lookup[1].selection[2] + 1, lookup[1].selection[3])

(***************************************************************************)
(* Claims about the click handler and render_page, checked under SpecMain. *)
(***************************************************************************)
\* the style sentinels, and the characters of a line that are displayed
Sentinels == {ITALIC, RESET_ITALIC, RESET_BACKGROUND, BACKGROUND_MARKER, BACKGROUND_SELECTION}
Displayed(line) == SelectSeq(line, LAMBDA c : c \notin Sentinels)

\* the latest event was a left click right of the gutter on a row that shows a document line
ClickOnShownLine ==
    /\ InLoop("click")
    /\ ~ClickInGutter
    /\ mlast.index + mlast.event[3] >= OFFSET
    /\ ClickPos < Len(lines)

\* C22: the click handler runs word/number detection on the line with all style
\* sentinels stripped: the character examined for a click at text column c is the
\* c-th displayed character of the line, whatever italic sentinels precede it.
\* So a click on a displayed letter or digit selects a span of that line, and a
\* click on no displayed letter or digit leaves the selection as it was.
C22_ClickSeesDisplayedText ==
    ClickOnShownLine =>
        LET shown == Displayed(lines[ClickPos + 1])
        IN  IF ClickCol < Len(shown) /\ shown[ClickCol + 1] \in Alphabetic \cup Numeric
            THEN mstate.selection # None /\ mstate.selection[1][1] = ClickPos
            ELSE mstate.selection = mlast.pre.selection

(***************************************************************************)
(* Claims about the italic sentinels across line breaks, under SpecBook.   *)
(***************************************************************************)
\* the position of the k-th newline of a text
NthNewline(text, k) ==
    CHOOSE p \in 1..Len(text) :
        /\ text[p] = "\n"
        /\ Cardinality({q \in 1..(p - 1) : text[q] = "\n"}) = k - 1

\* the newlines of the input of highlight_italic reached while emphasis is open,
\* by their rank among the newlines
OpenNewlines ==
    {k \in 1..Cardinality({p \in 1..Len(load.stripped) : load.stripped[p] = "\n"}) :
        Underscores(load.stripped, NthNewline(load.stripped, k)) % 2 = 1}

\* the first character after position q of a text that is not whitespace, 0 when there is none
NextNonWhitespace(text, q) ==
    LET S == {j \in (q + 1)..Len(text) : ~is_whitespace(text[j])}
    IN  IF S = {} THEN 0 ELSE Min(S)

\* the ends of the lines of a text (the positions of its newlines, and one past
\* the text for a last line without newline), and the italic sentinels of the
\* line that ends at e, in order
LineEnds(text) ==
    {p \in 1..Len(text) : text[p] = "\n"}
        \cup (IF text # << >> /\ text[Len(text)] # "\n" THEN {Len(text) + 1} ELSE {})
LineStart(text, e) == Max({0} \cup {p \in 1..(e - 1) : text[p] = "\n"}) + 1
ItalicsOfLine(text, e) ==
    SelectSeq(SubSeq(text, LineStart(text, e), e - 1), LAMBDA c : c \in {ITALIC, RESET_ITALIC})

\* every newline reached while emphasis is open is immediately preceded by one RESET_ITALIC
OffBeforeOpenNewlines ==
    \A k \in OpenNewlines :
        LET q == NthNewline(load.encoded, k)
        IN  /\ q > 1
            /\ load.encoded[q - 1] = RESET_ITALIC
            /\ q > 2 => load.encoded[q - 2] # RESET_ITALIC

\* every line that is followed by a newline ends with italic off
OffAtNewlines ==
    \A e \in LineEnds(load.encoded) :
        e <= Len(load.encoded) =>
            LET s == ItalicsOfLine(load.encoded, e)
            IN  s # << >> => s[Len(s)] = RESET_ITALIC

\* C23 as claimed: in the output of highlight_italic every newline reached while
\* emphasis is open is immediately preceded by one ITALIC-OFF sentinel and
\* emphasis resumes with one ITALIC-ON immediately before the next
\* non-whitespace character; within every output line the italic sentinels
\* alternate ON, OFF, ON, ... starting with ON, and every line followed by a
\* newline ends with italic off.
C23_NoItalicAcrossLines ==
    load.pc \in {"encoded", "book"} =>
        /\ OffBeforeOpenNewlines
        /\ \A k \in OpenNewlines :
            LET r == NextNonWhitespace(load.encoded, NthNewline(load.encoded, k))
            IN  r # 0 => load.encoded[r] = ITALIC
        /\ \A e \in LineEnds(load.encoded) :
            LET s == ItalicsOfLine(load.encoded, e)
            IN  \A i \in 1..Len(s) : s[i] = (IF i % 2 = 1 THEN ITALIC ELSE RESET_ITALIC)
        /\ OffAtNewlines

\* C23 as amended: every newline reached while emphasis is open is immediately
\* preceded by one ITALIC-OFF sentinel; the next character that is not
\* whitespace, if any, is then either an ITALIC-ON placed immediately before a
\* non-whitespace character, or the ITALIC-OFF of a further newline or of the
\* underscore that closes the emphasis; within every output line two ITALIC-ON
\* are separated by an ITALIC-OFF (an ITALIC-OFF may occur with italic already
\* off), and every line followed by a newline ends with italic off.
C23_ItalicOffAtLineBreaks ==
    load.pc \in {"encoded", "book"} =>
        /\ OffBeforeOpenNewlines
        /\ \A k \in OpenNewlines :
            LET r == NextNonWhitespace(load.encoded, NthNewline(load.encoded, k))
            IN  r # 0 =>
                    \/ /\ load.encoded[r] = ITALIC
                       /\ r < Len(load.encoded)
                       /\ ~is_whitespace(load.encoded[r + 1])
                       /\ load.encoded[r + 1] \notin {ITALIC, RESET_ITALIC}
                    \/ load.encoded[r] = RESET_ITALIC
        /\ \A e \in LineEnds(load.encoded) :
            LET s == ItalicsOfLine(load.encoded, e)
            IN  \A i \in 1..(Len(s) - 1) : ~(s[i] = ITALIC /\ s[i + 1] = ITALIC)
        /\ OffAtNewlines

\* emphasis was open over an empty line: each of the two newlines got its
\* ITALIC-OFF and the emphasis resumed before the next letter
C23_Witness ==
    /\ load.pc = "encoded"
    /\ load.stripped = <<"_", "a", "\n", "\n", "a">>
    /\ load.encoded = <<ITALIC, "a", RESET_ITALIC, "\n", RESET_ITALIC, "\n", ITALIC, "a">>

(***************************************************************************)
(* Navigation and the three clear operations together: the operations     *)
(* that guard their effect with a test of the current state.               *)
(***************************************************************************)
\* clear_message that marks the screen dirty also when there is no message
clear_message_always_dirty(s) == update_screen([s EXCEPT !.message = None])

\* State::clear_message
clear_message(s) ==
    IF s.message # None
    THEN update_screen([s EXCEPT !.message = None])
    ELSE s

ClearMessage ==
    /\ state' = clear_message(state)
    /\ Called("clear_message", None, TRUE, None)

NextGuarded ==
    \/ MoveDown
    \/ GotoTop
    \/ GotoBottom
    \/ GotoNextBookmark
    \/ GotoPrevBookmark
    \/ SetSelection
    \/ ClearSelection
    \/ ClearDefinition
    \/ ClearMessage
    \/ DefineSelection
    \/ DefineGet
    \/ DefineJson
    \/ Render

SpecGuarded == Init /\ [][NextGuarded]_vars

\* C24: an operation that has nothing to do changes no field of the State, the
\* update_screen flag included: goto_top at line 0, goto_bottom at
\* max(0, line_count - 1), goto_next_bookmark and goto_prev_bookmark without a
\* bookmark beyond the current line in their direction, and clear_selection,
\* clear_definition, clear_message when the field is already None.
C24_NoOpsNeverDirty ==
    LET pre == last.pre
        NoOp == \/ last.op = "goto_top" /\ pre.line_number = 0
                \/ last.op = "goto_bottom"
                     /\ pre.line_number = Max({0, pre.book.line_count - 1})
                \/ last.op = "goto_next_bookmark"
                     /\ \A b \in Elems(pre.config.bookmarks) : ~(b > pre.line_number)
                \/ last.op = "goto_prev_bookmark"
                     /\ \A b \in Elems(pre.config.bookmarks) : ~(b < pre.line_number)
                \/ last.op = "clear_selection" /\ pre.selection = None
                \/ last.op = "clear_definition" /\ pre.definition = None
                \/ last.op = "clear_message" /\ pre.message = None
    IN  NoOp => state = pre

\* clear_message was called on a clean screen without message, away from the top
C24_Witness ==
    /\ last.op = "clear_message"
    /\ last.pre.message = None
    /\ ~last.pre.update_screen
    /\ last.pre.line_number > 0
    /\ state = last.pre

(***************************************************************************)
(* Claims about clicked rows, marker spans and the pending `g`, checked    *)
(* under SpecMain.                                                         *)
(***************************************************************************)
\* the screen row of the latest click is one that render_page leaves blank
ClickRowBlank ==
    \/ mlast.index + mlast.event[3] < OFFSET
    \/ mlast.index + mlast.event[3] - OFFSET >= Len(lines)

\* C25: a left click on a screen row that render_page leaves blank
\* (index + row < 15, or index + row - 15 >= line_count) never changes the
\* selection; a click on any other row changes it, if at all, to a span on the
\* line displayed on that row, index + row - 15.
C25_ClickSelectsOnClickedRow ==
    InLoop("click") =>
        IF ClickRowBlank
        THEN mstate.selection = mlast.pre.selection
        ELSE \/ mstate.selection = mlast.pre.selection
             \/ /\ mstate.selection # None
                /\ mstate.selection[1][1] = mlast.index + mlast.event[3] - OFFSET

\* the characters of the stored line that a composited line shows between
\* BACKGROUND_MARKER and the next RESET_BACKGROUND (or the end of the line), for a
\* line that holds at most one BACKGROUND_MARKER
Enclosed(text) ==
    LET on == {j \in 1..Len(text) : text[j] = BACKGROUND_MARKER}
    IN  IF on = {} THEN << >>
        ELSE LET m == Min(on)
                 off == Min({j \in (m + 1)..Len(text) : text[j] = RESET_BACKGROUND}
                                \cup {Len(text) + 1})
             IN  SelectSeq(SubSeq(text, m + 1, off - 1),
                           LAMBDA c : c \notin {RESET_BACKGROUND, BACKGROUND_MARKER,
                                                BACKGROUND_SELECTION})

\* C26: in render_page the characters enclosed by a marker's BACKGROUND_MARKER
\* and RESET_BACKGROUND are the columns [start, end) of the stored line, the
\* same whether or not a selection is on the same line.  Stated for the rows
\* that show a line with one marker.
C26_MarkerEnclosesItsSpan ==
    PageRendered =>
        \A r \in 1..size[2] :
            (Page[r] # None /\ Cardinality(MarkersOn(Page[r][1].line_number)) = 1) =>
                LET pos == Page[r][1].line_number
                    marker == mstate.config.markers[CHOOSE k \in MarkersOn(pos) : TRUE]
                    span == SubSeq(lines[pos + 1], marker[2] + 1, marker[3])
                IN  /\ Enclosed(Page[r][1].text) = span
                    /\ Enclosed(Composite(lines, pos, [mstate EXCEPT !.selection = None])) = span

\* the five keys that end the pending `g`
Leaving == {<<"char", "g">>, <<"char", "e">>, <<"char", "n">>, <<"char", "p">>, <<"esc">>}

\* C27: once `g` is pressed the program stays in the pending state until one of
\* g, e, n, p or Esc arrives: every other event (q, j, k, x, m, other keys,
\* clicks, resizes) is discarded, leaving index, selection, bookmarks and
\* markers unchanged without a repaint and without quitting; the pending state
\* is entered only by `g` and is left by exactly those five keys, after which
\* the outer loop handles events again.
C27_PendingGUntilLeft ==
    /\ (mlast.pc = "g" /\ mlast.event \notin Leaving) =>
            /\ pc = "g"
            /\ index = mlast.index
            /\ mstate.selection = mlast.pre.selection
            /\ mstate.config.bookmarks = mlast.pre.config.bookmarks
            /\ mstate.config.markers = mlast.pre.config.markers
            /\ mlast.renders = << >>
    /\ (mlast.pc = "g" /\ mlast.event \in Leaving) => pc = "loop"
    /\ pc = "g" =>
            \/ mlast.pc = "loop" /\ mlast.event = <<"char", "g">>
            \/ mlast.pc = "g" /\ mlast.event \notin Leaving

\* with a selection, a bookmark and a marker present, `q` arrived while `g` was
\* pending and the program is still pending
C27_Witness ==
    /\ mlast.pc = "g"
    /\ mlast.event = <<"char", "q">>
    /\ pc = "g"
    /\ mstate.selection # None
    /\ mstate.config.bookmarks # << >>
    /\ mstate.config.markers # << >>

====
